---- MODULE Spec2Model ----
(***************************************************************************)
(* Model of scripts/build.py: the batch build orchestrator that reads      *)
(* "<name> <version> <recipe path>" lines from STDIN and runs conda build  *)
(* for each of them in a Docker container.                                 *)
(*                                                                         *)
(* Text is modelled as a sequence of fragments (single characters for the  *)
(* input lines and for the captured process output, literal pieces for the *)
(* format strings), so that split(), slicing and format() are computed as  *)
(* the code computes them.                                                 *)
(***************************************************************************)
EXTENDS Integers, Sequences, FiniteSets, TLC

VARIABLES
    args,         \* the parsed command line (argparse namespace), immutable
    stdin,        \* the lines waiting on standard input
    lines,        \* the list returned by sys.stdin.readlines()
    i,            \* 1-based position of the for loop in lines
    pc,           \* position of the script
    rec,          \* name, version, path of the current iteration
    build_image,  \* build_image of the current iteration
    cmd,          \* cmd of the current iteration
    fail,         \* the aggregate failure flag
    pulls,        \* history: every `docker pull` invocation and whether it succeeded
    runs,         \* history: every `docker run` invocation, in order
    results,      \* history: how every `docker run` process ended
    log,          \* history: every call of the logging module, in order
    error,        \* the uncaught exception that ended the script, or "none"
    exit_status   \* <<>> while the script runs, <<n>> once it exited with n

vars == <<args, stdin, lines, i, pc, rec, build_image, cmd, fail, pulls,
          runs, results, log, error, exit_status>>

(***************************************************************************)
(* Bounds                                                                  *)
(***************************************************************************)
MaxLines == 3

(***************************************************************************)
(* Program constants                                                       *)
(***************************************************************************)
DEFAULT_RECIPES_DIR == <<"$HOME/conda-recipes">>

DEFAULT_RECIPES_MOUNT == <<"/home/conda/recipes">>

DEFAULT_ARTEFACTS_DIR == <<"$HOME/conda-artefacts">>

DEFAULT_ARTEFACTS_MOUNT == <<"/opt/conda/conda-bld">>

IRODS_BUILD_IMAGE == "wsinpg/ub-12.04-conda-irods:latest"

DEFAULT_BUILD_IMAGE == "wsinpg/ub-12.04-conda:latest"

(***************************************************************************)
(* Input alphabet                                                          *)
(***************************************************************************)
Whitespace == {" ", "\t", "\n"}

NameIrods == <<"i", "r", "o", "d", "s">>

NameOther == <<"z", "l", "i", "b">>

Ver4110 == <<"4", ".", "1", ".", "1", "0">>

Ver420 == <<"4", ".", "2", ".", "0">>

Ver41 == <<"4", ".", "1">>

PathA == <<"r", "/", "a">>

PathB == <<"r", "/", "b">>

\* The lines a run may find on STDIN: well-formed ones (with single or
\* repeated separators and trailing blanks), a blank line, a line of two
\* fields and a line of four fields.
RawLines ==
    { NameIrods \o <<" ">> \o Ver4110 \o <<" ">> \o PathA \o <<"\n">>,
      NameIrods \o <<" ">> \o Ver420 \o <<" ">> \o PathA \o <<"\n">>,
      NameIrods \o <<"\t">> \o Ver41 \o <<" ">> \o PathA \o <<"\n">>,
      NameOther \o <<" ", " ">> \o Ver4110 \o <<" ">> \o PathB \o <<" ", "\n">>,
      <<"\n">>,
      NameOther \o <<" ">> \o Ver420 \o <<"\n">>,
      NameOther \o <<" ">> \o Ver420 \o <<" ">> \o PathB \o <<" ">> \o PathA \o <<"\n">> }

RECURSIVE SeqsUpTo(_, _)
SeqsUpTo(S, n) ==
    IF n = 0 THEN { <<>> }
    ELSE LET shorter == SeqsUpTo(S, n - 1)
         IN  shorter \cup { Append(s, x) : s \in { t \in shorter : Len(t) = n - 1 }, x \in S }

Inputs == SeqsUpTo(RawLines, MaxLines)

Channels == { <<>>, << <<"c1">>, <<"c2">> >> }

\* The command lines the model runs the script with.  The directories,
\* mounts, images and ids keep their defaults; so do --debug and --verbose,
\* which only set the threshold of the logging module (Level) and are read
\* by no step of the loop.
Configs ==
    [ recipes_dir       : { DEFAULT_RECIPES_DIR },
      recipes_mount     : { DEFAULT_RECIPES_MOUNT },
      artefacts_dir     : { DEFAULT_ARTEFACTS_DIR },
      artefacts_mount   : { DEFAULT_ARTEFACTS_MOUNT },
      build_channel     : Channels,
      irods_build_image : { IRODS_BUILD_IMAGE },
      conda_build_image : { DEFAULT_BUILD_IMAGE },
      remove_container  : BOOLEAN,
      conda_uid         : { <<"1000">> },
      conda_gid         : { <<"1000">> },
      dry_run           : BOOLEAN,
      debug             : { FALSE },
      verbose           : { FALSE } ]

\* An undecodable byte of a process' output.
InvalidByte == "0xff"

\* What a `docker run` process may leave on its combined STDOUT/STDERR.
Stdouts == { <<"a", "\n", "b">>, <<"a", InvalidByte>> }

(***************************************************************************)
(* Pure functions                                                          *)
(***************************************************************************)

\* str.split() without arguments: the maximal runs of non-whitespace.
RECURSIVE SplitFrom(_, _, _, _)
SplitFrom(s, k, cur, toks) ==
    IF k > Len(s)
    THEN IF cur = <<>> THEN toks ELSE Append(toks, cur)
    ELSE IF s[k] \in Whitespace
         THEN SplitFrom(s, k + 1, <<>>, IF cur = <<>> THEN toks ELSE Append(toks, cur))
         ELSE SplitFrom(s, k + 1, Append(cur, s[k]), toks)

split(s) == SplitFrom(s, 1, <<>>, <<>>)

\* str.split("\n"): the pieces between newlines, empty ones included.
RECURSIVE SplitNLFrom(_, _, _, _)
SplitNLFrom(s, k, cur, toks) ==
    IF k > Len(s)
    THEN Append(toks, cur)
    ELSE IF s[k] = "\n"
         THEN SplitNLFrom(s, k + 1, <<>>, Append(toks, cur))
         ELSE SplitNLFrom(s, k + 1, Append(cur, s[k]), toks)

splitNL(s) == SplitNLFrom(s, 1, <<>>, <<>>)

\* bytes.decode(enc) succeeds iff every byte is valid in the encoding.
Decodable(out) == \A k \in 1..Len(out) : out[k] # InvalidByte

Unpacks_AtLeastThree(toks) == Len(toks) >= 3

\* name, version, path = toks succeeds iff toks has exactly three elements.
Unpacks(toks) == Len(toks) = 3

\* s[:n]
Slice(s, n) == SubSeq(s, 1, IF Len(s) < n THEN Len(s) ELSE n)

IsIrods41_NameOnly(name, version) == name = NameIrods

IsIrods41(name, version) ==
    name = NameIrods /\ Slice(version, 4) = <<"4", ".", "1", ".">>

SelectImage_AfterFailure(a, name, version) ==
    IF IsIrods41(name, version) /\ ~fail THEN a.irods_build_image ELSE a.conda_build_image

SelectImage(a, name, version) ==
    IF IsIrods41(name, version) THEN a.irods_build_image ELSE a.conda_build_image

Level(a) ==
    IF a.debug THEN "DEBUG"
    ELSE IF a.verbose \/ a.dry_run THEN "INFO"
    ELSE "ERROR"

RECURSIVE ChannelStatements_Reversed(_)
ChannelStatements_Reversed(chs) ==
    IF chs = <<>> THEN <<>>
    ELSE ChannelStatements_Reversed(Tail(chs))
         \o <<"conda config --add channels ">> \o Head(chs) \o <<" ; ">>

RECURSIVE ChannelStatements(_)
ChannelStatements(chs) ==
    IF chs = <<>> THEN <<>>
    ELSE <<"conda config --add channels ">> \o Head(chs) \o <<" ; ">>
         \o ChannelStatements(Tail(chs))

BuildScript_ChannelsFirst(a, path) ==
    ChannelStatements(a.build_channel)
    \o <<"export CONDA_BLD_PATH=\"">> \o a.artefacts_mount \o <<"\" ; ">>
    \o <<"conda config --set auto_update_conda False ; ">>
    \o <<"cd \"">> \o a.recipes_mount \o <<"\" && conda build ">> \o path

BuildScript(a, path) ==
    <<"export CONDA_BLD_PATH=\"">> \o a.artefacts_mount \o <<"\" ; ">>
    \o <<"conda config --set auto_update_conda False ; ">>
    \o ChannelStatements(a.build_channel)
    \o <<"cd \"">> \o a.recipes_mount \o <<"\" && conda build ">> \o path

MountArg(dir, mount) ==
    <<"source=">> \o dir \o <<",target=">> \o mount \o <<",type=bind">>

OtherArgs_AlwaysRm(a) == << <<"-i">>, <<"--rm">> >>

OtherArgs(a) == IF a.remove_container THEN << <<"-i">>, <<"--rm">> >> ELSE << <<"-i">> >>

Cmd(a, image, path) ==
    << <<"docker">>, <<"run">> >>
    \o << <<"--mount">>, MountArg(a.recipes_dir, a.recipes_mount),
          <<"--mount">>, MountArg(a.artefacts_dir, a.artefacts_mount) >>
    \o << <<"-e">>, <<"CONDA_USER_ID=">> \o a.conda_uid,
          <<"-e">>, <<"CONDA_GROUP_ID=">> \o a.conda_gid >>
    \o OtherArgs(a)
    \o << <<image>> >>
    \o << <<"/bin/sh">>, <<"-c">>, BuildScript(a, path) >>

(***************************************************************************)
(* Logging                                                                 *)
(***************************************************************************)
LogEntry(level, idx, kind, text) ==
    [level |-> level, idx |-> idx, kind |-> kind, text |-> text]

\* for outline in <decoded output>.split("\n"): log.<level>(outline)
LogOutput(level, idx, out) ==
    LET outlines == splitNL(out)
    IN  [k \in 1..Len(outlines) |-> LogEntry(level, idx, "out", outlines[k])]

Banner(level, idx, kind) == LogEntry(level, idx, kind, <<>>)

\* The severity the success branch logs the process output with.
SuccessLevel == "DEBUG"

\* The severity the except branch logs the process output with.
FailureLevel == "ERROR"

(***************************************************************************)
(* The script                                                              *)
(***************************************************************************)
NoRecord == [name |-> <<>>, version |-> <<>>, path |-> <<>>]

Init ==
    /\ args \in Configs
    /\ stdin \in Inputs
    /\ lines = <<>>
    /\ i = 0
    /\ pc = "pull_default"
    /\ rec = NoRecord
    /\ build_image = ""
    /\ cmd = <<>>
    /\ fail = FALSE
    /\ pulls = <<>>
    /\ runs = <<>>
    /\ results = <<>>
    /\ log = <<>>
    /\ error = "none"
    /\ exit_status = <<>>

\* An uncaught exception: the interpreter prints the traceback and exits
\* with status 1.
Raise(exc) ==
    /\ pc' = "aborted"
    /\ error' = exc
    /\ exit_status' = <<1>>

\* The value `fail` is initialised with.
FailInit == FALSE

\* docker_pull(args.conda_build_image) returns; fail = False; the for
\* statement evaluates sys.stdin.readlines().
PullDefaultOK ==
    /\ pc = "pull_default"
    /\ pulls' = Append(pulls, [image |-> args.conda_build_image, ok |-> TRUE])
    /\ fail' = FailInit
    /\ lines' = stdin
    /\ stdin' = <<>>
    /\ i' = 1
    /\ pc' = "loop"
    /\ UNCHANGED <<args, rec, build_image, cmd, runs, results, log, error, exit_status>>

PullDefaultFails_Ignored ==
    /\ pc = "pull_default"
    /\ pulls' = Append(pulls, [image |-> args.conda_build_image, ok |-> FALSE])
    /\ fail' = FALSE
    /\ lines' = stdin
    /\ stdin' = <<>>
    /\ i' = 1
    /\ pc' = "loop"
    /\ UNCHANGED <<args, rec, build_image, cmd, runs, results, log, error, exit_status>>

\* docker_pull(args.conda_build_image) raises (check_output saw a non-zero
\* exit status).
PullDefaultFails ==
    /\ pc = "pull_default"
    /\ pulls' = Append(pulls, [image |-> args.conda_build_image, ok |-> FALSE])
    /\ Raise("CalledProcessError")
    /\ UNCHANGED <<args, stdin, lines, i, rec, build_image, cmd, fail, runs, results, log>>

ParseError_SkipBlank ==
    /\ pc = "loop"
    /\ i <= Len(lines)
    /\ ~Unpacks(split(lines[i]))
    /\ IF split(lines[i]) = <<>>
       THEN /\ i' = i + 1
            /\ UNCHANGED <<pc, error, exit_status>>
       ELSE /\ i' = i
            /\ Raise("ValueError")
    /\ UNCHANGED <<args, stdin, lines, rec, build_image, cmd, fail, pulls, runs, results, log>>

\* name, version, path = line.split() raises: the line has not three fields.
\* (line.rstrip() before it discards its result.)
ParseError ==
    /\ pc = "loop"
    /\ i <= Len(lines)
    /\ ~Unpacks(split(lines[i]))
    /\ Raise("ValueError")
    /\ UNCHANGED <<args, stdin, lines, i, rec, build_image, cmd, fail, pulls, runs, results, log>>

AfterSelect_SkipPull(name, version) == "plan"

AfterSelect_NoPullOnDryRun(name, version) ==
    IF IsIrods41(name, version) /\ ~args.dry_run THEN "pull_irods" ELSE "plan"

\* Where the script goes after the image selection.
AfterSelect(name, version) == IF IsIrods41(name, version) THEN "pull_irods" ELSE "plan"

\* The head of an iteration up to the image selection.
Select ==
    /\ pc = "loop"
    /\ i <= Len(lines)
    /\ LET toks == split(lines[i]) IN
        /\ Unpacks(toks)
        /\ LET name == toks[1]
               version == toks[2]
               path == toks[3]
               image == SelectImage(args, name, version)
           IN  /\ rec' = [name |-> name, version |-> version, path |-> path]
               /\ build_image' = image
               /\ log' = log \o << LogEntry("INFO", i, "working", <<name, version, path>>) >>
                             \o (IF IsIrods41(name, version)
                                 THEN << LogEntry("INFO", i, "image", << <<image>> >>) >>
                                 ELSE <<>>)
               /\ pc' = AfterSelect(name, version)
    /\ UNCHANGED <<args, stdin, lines, i, cmd, fail, pulls, runs, results, error, exit_status>>

\* docker_pull(args.irods_build_image) returns.
PullIrodsOK ==
    /\ pc = "pull_irods"
    /\ pulls' = Append(pulls, [image |-> args.irods_build_image, ok |-> TRUE])
    /\ pc' = "plan"
    /\ UNCHANGED <<args, stdin, lines, i, rec, build_image, cmd, fail, runs, results, log, error, exit_status>>

PullIrodsFails_Ignored ==
    /\ pc = "pull_irods"
    /\ pulls' = Append(pulls, [image |-> args.irods_build_image, ok |-> FALSE])
    /\ pc' = "plan"
    /\ UNCHANGED <<args, stdin, lines, i, rec, build_image, cmd, fail, runs, results, log, error, exit_status>>

\* docker_pull(args.irods_build_image) raises.
PullIrodsFails ==
    /\ pc = "pull_irods"
    /\ pulls' = Append(pulls, [image |-> args.irods_build_image, ok |-> FALSE])
    /\ Raise("CalledProcessError")
    /\ UNCHANGED <<args, stdin, lines, i, rec, build_image, cmd, fail, runs, results, log>>

DryRun_Never(a) == FALSE

\* Whether the iteration only describes the command.
DryRun(a) == a.dry_run

Plan_NoWait ==
    /\ pc = "plan"
    /\ LET c == Cmd(args, build_image, rec.path) IN
        /\ cmd' = c
        /\ log' = Append(log, LogEntry("DEBUG", i, "script", BuildScript(args, rec.path)))
        /\ runs' = Append(runs, [idx |-> i, cmd |-> c])
        /\ i' = i + 1
        /\ pc' = "loop"
    /\ UNCHANGED <<args, stdin, lines, rec, build_image, fail, pulls, results, error, exit_status>>

\* build_script and cmd are assembled; under --dry-run the command is logged
\* and the iteration ends, otherwise subprocess.run starts the process.
Plan ==
    /\ pc = "plan"
    /\ LET c == Cmd(args, build_image, rec.path) IN
        /\ cmd' = c
        /\ IF DryRun(args)
           THEN /\ log' = Append(log, LogEntry("INFO", i, "cmd", c))
                /\ i' = i + 1
                /\ pc' = "loop"
                /\ runs' = runs
           ELSE /\ log' = Append(log, LogEntry("DEBUG", i, "script", BuildScript(args, rec.path)))
                /\ runs' = Append(runs, [idx |-> i, cmd |-> c])
                /\ i' = i
                /\ pc' = "run"
    /\ UNCHANGED <<args, stdin, lines, rec, build_image, fail, pulls, results, error, exit_status>>

FailAfterSuccess_Reset(f) == FALSE

\* The flag after a build that exited with status 0.
FailAfterSuccess(f) == f

\* The flag after a build that exited with a non-zero status.
FailAfterFailure(f) == TRUE

\* The process exits with status 0: its output is decoded and logged.
BuildSucceeds(out) ==
    /\ pc = "run"
    /\ results' = Append(results, [idx |-> i, rc |-> 0, out |-> out])
    /\ fail' = FailAfterSuccess(fail)
    /\ IF Decodable(out)
       THEN /\ log' = log \o << Banner(SuccessLevel, i, "begin") >>
                          \o LogOutput(SuccessLevel, i, out)
                          \o << Banner(SuccessLevel, i, "end") >>
            /\ i' = i + 1
            /\ pc' = "loop"
            /\ UNCHANGED <<error, exit_status>>
       ELSE /\ log' = Append(log, Banner(SuccessLevel, i, "begin"))
            /\ i' = i
            /\ Raise("UnicodeDecodeError")
    /\ UNCHANGED <<args, stdin, lines, rec, build_image, cmd, pulls, runs>>

\* The process exits with a non-zero status: subprocess.run raises
\* CalledProcessError, the handler sets the flag, decodes and logs the output.
BuildFails(rc, out) ==
    /\ pc = "run"
    /\ rc # 0
    /\ results' = Append(results, [idx |-> i, rc |-> rc, out |-> out])
    /\ fail' = FailAfterFailure(fail)
    /\ IF Decodable(out)
       THEN /\ log' = log \o << Banner(FailureLevel, i, "begin") >>
                          \o LogOutput(FailureLevel, i, out)
                          \o << Banner(FailureLevel, i, "end") >>
            /\ i' = i + 1
            /\ pc' = "loop"
            /\ UNCHANGED <<error, exit_status>>
       ELSE /\ log' = Append(log, Banner(FailureLevel, i, "begin"))
            /\ i' = i
            /\ Raise("UnicodeDecodeError")
    /\ UNCHANGED <<args, stdin, lines, rec, build_image, cmd, pulls, runs>>

FinalStatus_AlwaysZero(f) == 0

FinalStatus_Inverted(f) == IF f THEN 0 ELSE 1

\* The exit status of a script that ran to its end.
FinalStatus(f) == IF f THEN 1 ELSE 0

\* The input is exhausted: if fail: exit(1); otherwise the script ends.
Finish ==
    /\ pc = "loop"
    /\ i > Len(lines)
    /\ pc' = "done"
    /\ exit_status' = << FinalStatus(fail) >>
    /\ UNCHANGED <<args, stdin, lines, i, rec, build_image, cmd, fail, pulls, runs, results, log, error>>

ExitCodes == 0..1

\* subprocess.run gives up on a process that has not exited.
BuildTimeout ==
    /\ pc = "run"
    /\ i' = i + 1
    /\ pc' = "loop"
    /\ UNCHANGED <<args, stdin, lines, rec, build_image, cmd, fail, pulls, runs, results, log, error, exit_status>>

Next_WithTimeout ==
    \/ PullDefaultOK
    \/ PullDefaultFails
    \/ ParseError
    \/ Select
    \/ PullIrodsOK
    \/ PullIrodsFails
    \/ Plan
    \/ \E out \in Stdouts : BuildSucceeds(out)
    \/ \E rc \in ExitCodes, out \in Stdouts : BuildFails(rc, out)
    \/ Finish
    \/ BuildTimeout

Next ==
    \/ PullDefaultOK
    \/ PullDefaultFails
    \/ ParseError
    \/ Select
    \/ PullIrodsOK
    \/ PullIrodsFails
    \/ Plan
    \/ \E out \in Stdouts : BuildSucceeds(out)
    \/ \E rc \in ExitCodes, out \in Stdouts : BuildFails(rc, out)
    \/ Finish

Spec == Init /\ [][Next]_vars

\* The script as it runs when the interpreter keeps executing it and every
\* external process (docker pull, docker run) eventually exits.
FairSpec == Spec /\ WF_vars(Next)

(***************************************************************************)
(* Vocabulary of the properties                                            *)
(***************************************************************************)
Input == stdin \o lines

Terminated == pc \in {"done", "aborted"}

FieldCount(line) == Len(split(line))

AllWellFormed == \A k \in 1..Len(Input) : FieldCount(Input[k]) = 3

AllPullsOK == \A k \in 1..Len(pulls) : pulls[k].ok

IsCmdEntry(e) == e.kind = "cmd"

Descriptions == SelectSeq(log, IsCmdEntry)

\* The execution attempts so far: the docker run invocations, or under
\* --dry-run the logged descriptions; each with its line and its command.
Attempts ==
    IF args.dry_run
    THEN [k \in 1..Len(Descriptions) |->
            [idx |-> Descriptions[k].idx, cmd |-> Descriptions[k].text]]
    ELSE runs

\* The recipe path an assembled command builds: the tail of its script.
ScriptOf(c) == c[Len(c)]

EndsWith(s, t) == Len(s) >= Len(t) /\ SubSeq(s, Len(s) - Len(t) + 1, Len(s)) = t

AttemptIsForLine(a, k) ==
    /\ a.idx = k
    /\ EndsWith(ScriptOf(a.cmd), split(Input[k])[3])

FailedBuilds == { k \in 1..Len(results) : results[k].rc # 0 }

(***************************************************************************)
(* C1: for a well-formed input and with every image pull succeeding, a     *)
(* run that has ended made exactly one execution attempt (docker run, or   *)
(* description under --dry-run) per input line, the k-th attempt being for *)
(* the k-th line.  Stated as claimed; the code violates it when a build's  *)
(* output cannot be decoded.                                               *)
(***************************************************************************)
C1_OneAttemptPerLine ==
    (Terminated /\ AllWellFormed /\ AllPullsOK) =>
        /\ Len(Attempts) = Len(Input)
        /\ \A k \in 1..Len(Attempts) : AttemptIsForLine(Attempts[k], k)

(***************************************************************************)
(* C2: failure isolation: a build process that exits non-zero never makes  *)
(* the run abort at its record.  Stated as claimed; the code violates it   *)
(* when the failed build's output cannot be decoded.                       *)
(***************************************************************************)
C2_FailureIsolation ==
    \A k \in FailedBuilds : ~(pc = "aborted" /\ i = results[k].idx)

(***************************************************************************)
(* C3: a run that reaches the end of its input exits with status 0 if no   *)
(* build process exited non-zero and with status 1 if at least one did,    *)
(* wherever and however many they were.                                    *)
(***************************************************************************)
C3_ExitStatus ==
    pc = "done" =>
        /\ Len(results) = (IF args.dry_run THEN 0 ELSE Len(lines))
        /\ exit_status = << IF FailedBuilds = {} THEN 0 ELSE 1 >>

C3_Witness ==
    /\ pc = "done"
    /\ Len(results) = 3
    /\ FailedBuilds = {2}
    /\ exit_status = <<1>>

(***************************************************************************)
(* C4: under --dry-run no docker run process is ever started, whatever the *)
(* number of records; each record the loop has finished has exactly its    *)
(* description logged at INFO, and none of the build's log calls happen.   *)
(***************************************************************************)
C4_DryRunNeverRuns ==
    args.dry_run =>
        /\ runs = <<>>
        /\ results = <<>>
        /\ \A k \in 1..Len(log) : log[k].kind \in {"working", "image", "cmd"}
        /\ i >= 1 => Len(Descriptions) = i - 1
        /\ \A k \in 1..Len(Descriptions) :
              /\ Descriptions[k].idx = k
              /\ Descriptions[k].level = "INFO"
              /\ SubSeq(Descriptions[k].text, 1, 2) = << <<"docker">>, <<"run">> >>

C4_Witness ==
    /\ args.dry_run
    /\ pc = "done"
    /\ Len(lines) = 3
    /\ Len(Descriptions) = 3
    /\ runs = <<>>

(***************************************************************************)
(* C5: the image of every assembled command (run, or described under       *)
(* --dry-run) is the configured irods image if and only if the record's    *)
(* name is "irods" and its version starts with "4.1."; otherwise it is the *)
(* configured default image.                                               *)
(***************************************************************************)
ImageOf(c) == c[Len(c) - 3][1]

StartsWith41Dot(v) ==
    /\ Len(v) >= 4
    /\ v[1] = "4"
    /\ v[2] = "."
    /\ v[3] = "1"
    /\ v[4] = "."

NeedsIrodsImage(line) ==
    /\ split(line)[1] = <<"i", "r", "o", "d", "s">>
    /\ StartsWith41Dot(split(line)[2])

C5_ImageSelection ==
    \A k \in 1..Len(Attempts) :
        LET line == lines[Attempts[k].idx]
            image == ImageOf(Attempts[k].cmd)
        IN  /\ image = args.irods_build_image <=> NeedsIrodsImage(line)
            /\ image = args.conda_build_image <=> ~NeedsIrodsImage(line)

C5_Witness ==
    \E a, b, c \in 1..Len(runs) :
        /\ ImageOf(runs[a].cmd) = IRODS_BUILD_IMAGE
        /\ split(lines[runs[a].idx])[2] = Ver4110
        /\ ImageOf(runs[b].cmd) = DEFAULT_BUILD_IMAGE
        /\ split(lines[runs[b].idx])[1] = NameIrods
        /\ ImageOf(runs[c].cmd) = DEFAULT_BUILD_IMAGE
        /\ split(lines[runs[c].idx])[1] = NameOther
        /\ split(lines[runs[c].idx])[2] = Ver4110

(***************************************************************************)
(* C6: a line whose field count is not three is fatal: the loop never gets *)
(* past it and never attempts it; the run aborts at it with a non-zero     *)
(* status, and the attempts made for the lines before it stay made.        *)
(***************************************************************************)
C6_MalformedLineIsFatal ==
    /\ \A k \in 1..Len(Attempts) : FieldCount(lines[Attempts[k].idx]) = 3
    /\ \A k \in 1..Len(lines) : k < i => FieldCount(lines[k]) = 3
    /\ pc \in {"pull_irods", "plan", "run"} => FieldCount(lines[i]) = 3
    /\ error = "ValueError" =>
          /\ pc = "aborted"
          /\ Len(exit_status) = 1 /\ exit_status[1] # 0
          /\ FieldCount(lines[i]) # 3
          /\ Len(Attempts) = i - 1
          /\ \A k \in 1..Len(Attempts) : Attempts[k].idx = k
          /\ ~args.dry_run => Len(results) = i - 1

C6_Witness ==
    /\ error = "ValueError"
    /\ i = 3
    /\ FieldCount(lines[3]) = 4
    /\ Len(runs) = 2
    /\ Len(results) = 2

(***************************************************************************)
(* C7: the failure flag starts false and no step of the script takes it    *)
(* from true back to false.                                                *)
(***************************************************************************)
C7_FailMonotonic == (fail = FALSE) /\ [][fail => fail']_vars

C7_Witness ==
    /\ fail
    /\ pc = "done"
    /\ Len(results) = 3
    /\ results[1].rc # 0
    /\ results[2].rc = 0
    /\ results[3].rc = 0
    /\ Len(pulls) > 1

(***************************************************************************)
(* C8: the default build image is pulled exactly once, before anything is  *)
(* read, parsed, planned or run; if that pull fails the run is aborted     *)
(* with a non-zero status and nothing else has happened.                   *)
(***************************************************************************)
DefaultPulls == { k \in 1..Len(pulls) : pulls[k].image = args.conda_build_image }

NothingProcessed ==
    /\ lines = <<>>
    /\ rec = NoRecord
    /\ cmd = <<>>
    /\ runs = <<>>
    /\ results = <<>>
    /\ log = <<>>

C8_DefaultPullFirst ==
    /\ pc = "pull_default" => pulls = <<>> /\ NothingProcessed
    /\ pc # "pull_default" => DefaultPulls = {1}
    /\ (Len(pulls) >= 1 /\ ~pulls[1].ok) =>
          /\ pc = "aborted"
          /\ Len(exit_status) = 1 /\ exit_status[1] # 0
          /\ Len(pulls) = 1
          /\ NothingProcessed

C8_Witness ==
    /\ Len(pulls) = 1
    /\ ~pulls[1].ok
    /\ pc = "aborted"
    /\ Len(stdin) = 3

(***************************************************************************)
(* C9: a failed image pull, the irods pull in the middle of a batch        *)
(* included, is the last thing the run does: it aborts with a non-zero     *)
(* status, the record that asked for the pull is not attempted and neither *)
(* is any later one.                                                       *)
(***************************************************************************)
C9_PullFailureAborts ==
    \A k \in 1..Len(pulls) :
        ~pulls[k].ok =>
            /\ k = Len(pulls)
            /\ pc = "aborted"
            /\ error = "CalledProcessError"
            /\ Len(exit_status) = 1 /\ exit_status[1] # 0
            /\ \A a \in 1..Len(Attempts) : Attempts[a].idx < i
            /\ Len(results) = Len(runs)

C9_Witness ==
    /\ Len(lines) = 3
    /\ i = 2
    /\ Len(pulls) = 2
    /\ ~pulls[2].ok
    /\ pulls[2].image = IRODS_BUILD_IMAGE
    /\ Len(runs) = 1
    /\ pc = "aborted"

(***************************************************************************)
(* C10: the captured output of every build that exited non-zero is logged  *)
(* at ERROR, and that of every build that exited 0 is logged at DEBUG and  *)
(* never at ERROR.  Stated as claimed; the code violates it when the       *)
(* output cannot be decoded, and then logs none of it.                     *)
(***************************************************************************)
OutputLogged(idx, level) ==
    LET Test(e) == e.idx = idx /\ e.kind = "out" /\ e.level = level
        entries == SelectSeq(log, Test)
    IN  [k \in 1..Len(entries) |-> entries[k].text]

C10_LogSeverity ==
    \A k \in 1..Len(results) :
        LET r == results[k] IN
        IF r.rc # 0
        THEN OutputLogged(r.idx, "ERROR") = splitNL(r.out)
        ELSE /\ OutputLogged(r.idx, "DEBUG") = splitNL(r.out)
             /\ \A e \in 1..Len(log) : log[e].idx = r.idx => log[e].level # "ERROR"

(***************************************************************************)
(* C11: in the script of every assembled command the channel statements    *)
(* are one per configured channel, in the configured order; with no        *)
(* channel configured the script holds no channel statement.               *)
(***************************************************************************)
AddChannel == "conda config --add channels "

\* The channels the statements of a script add, in the order of the script.
RECURSIVE ChannelsAdded(_)
ChannelsAdded(script) ==
    IF Len(script) < 2 THEN <<>>
    ELSE IF Head(script) = AddChannel
         THEN << script[2] >> \o ChannelsAdded(Tail(Tail(script)))
         ELSE ChannelsAdded(Tail(script))

\* The configured channels, each as the one fragment it is formatted to.
ConfiguredChannels == [k \in 1..Len(args.build_channel) |-> args.build_channel[k][1]]

C11_ChannelOrder ==
    \A k \in 1..Len(Attempts) :
        ChannelsAdded(ScriptOf(Attempts[k].cmd)) = ConfiguredChannels

C11_Witness ==
    /\ Len(runs) >= 1
    /\ Len(args.build_channel) = 2
    /\ ChannelsAdded(ScriptOf(runs[1].cmd)) = <<"c1", "c2">>

(***************************************************************************)
(* C12: under --dry-run the failure flag is never set, and a run over a    *)
(* well-formed input whose pulls all succeed ends at the end of the loop   *)
(* with exit status 0.                                                     *)
(***************************************************************************)
C12_DryRunSucceeds ==
    args.dry_run =>
        /\ ~fail
        /\ pc = "done" => exit_status = <<0>>
        /\ (Terminated /\ AllWellFormed /\ AllPullsOK) => pc = "done"

C12_Witness ==
    /\ args.dry_run
    /\ pc = "done"
    /\ Len(lines) = 3
    /\ Len(pulls) = 3
    /\ exit_status = <<0>>

(***************************************************************************)
(* C13, as claimed: at most one build process is in flight, and while the  *)
(* process of record i is in flight no later record has been read from the *)
(* input.  The code violates the second half: readlines() has consumed the *)
(* whole input before the first record is processed.                       *)
(***************************************************************************)
InFlight == Len(runs) - Len(results)

C13_ReadsNextAfterExit ==
    /\ InFlight <= 1
    /\ pc = "run" => Len(lines) <= i

(***************************************************************************)
(* C13, amended: the whole input is read before the first record is        *)
(* processed; the builds are strictly sequential: at most one process is   *)
(* in flight, exactly while the script waits in subprocess.run, the        *)
(* processes are started in input order, and nothing of a later record     *)
(* (log call, command) exists until the process in flight has exited.      *)
(***************************************************************************)
C13_Sequential ==
    /\ i >= 1 => stdin = <<>>
    /\ InFlight \in {0, 1}
    /\ InFlight = 1 <=> pc = "run"
    /\ \A k \in 1..Len(runs) : \A j \in 1..Len(runs) : j < k => runs[j].idx < runs[k].idx
    /\ \A k \in 1..Len(results) : results[k].idx = runs[k].idx
    /\ pc = "run" =>
          /\ runs[Len(runs)].idx = i
          /\ \A e \in 1..Len(log) : log[e].idx <= i

C13_Witness ==
    /\ pc = "run"
    /\ i = 2
    /\ Len(lines) = 3
    /\ Len(results) = 1
    /\ Len(runs) = 2

(***************************************************************************)
(* C14: every command that uses the irods image was preceded by a          *)
(* successful pull of that image, one pull per such record; and a pull     *)
(* that succeeded marks nothing as failed: the flag is set only after a    *)
(* build process exited non-zero, and a run whose pulls all succeeded was  *)
(* not ended by a pull.                                                    *)
(***************************************************************************)
IrodsPullsOK ==
    { k \in 1..Len(pulls) : pulls[k].image = args.irods_build_image /\ pulls[k].ok }

IrodsAttempts ==
    { k \in 1..Len(Attempts) : ImageOf(Attempts[k].cmd) = args.irods_build_image }

C14_PullBeforeUse ==
    /\ Cardinality(IrodsPullsOK) >= Cardinality(IrodsAttempts)
    /\ Cardinality(IrodsPullsOK) <= Cardinality(IrodsAttempts) + 1
    /\ fail => FailedBuilds # {}
    /\ AllPullsOK => error # "CalledProcessError"

C14_Witness ==
    /\ pc = "done"
    /\ Len(runs) = 2
    /\ IrodsAttempts = {1, 2}
    /\ IrodsPullsOK = {2, 3}
    /\ ~fail
    /\ exit_status = <<0>>

(***************************************************************************)
(* C15: every assembled command has the shape: docker run, the recipes     *)
(* bind mount, the artefacts bind mount, the user id and the group id      *)
(* environment variables, -i, then --rm if and only if --remove-container  *)
(* is set, then the image, then /bin/sh -c and the script as one argument. *)
(***************************************************************************)
FixedHead ==
    << <<"docker">>, <<"run">>,
       <<"--mount">>,
       <<"source=", "$HOME/conda-recipes", ",target=", "/home/conda/recipes", ",type=bind">>,
       <<"--mount">>,
       <<"source=", "$HOME/conda-artefacts", ",target=", "/opt/conda/conda-bld", ",type=bind">>,
       <<"-e">>, <<"CONDA_USER_ID=", "1000">>,
       <<"-e">>, <<"CONDA_GROUP_ID=", "1000">>,
       <<"-i">> >>

HasShape(c, rm) ==
    LET h == Len(FixedHead)
        flags == IF rm THEN 1 ELSE 0
    IN  /\ Len(c) = h + flags + 4
        /\ SubSeq(c, 1, h) = FixedHead
        /\ rm => c[h + 1] = <<"--rm">>
        /\ c[h + flags + 1] \in { <<args.irods_build_image>>, <<args.conda_build_image>> }
        /\ c[h + flags + 2] = <<"/bin/sh">>
        /\ c[h + flags + 3] = <<"-c">>
        /\ c[h + flags + 4][1] = "export CONDA_BLD_PATH=\""
        /\ \A k \in 1..Len(c) : c[k] = <<"--rm">> => (rm /\ k = h + 1)

C15_InvocationShape ==
    \A k \in 1..Len(Attempts) : HasShape(Attempts[k].cmd, args.remove_container)

C15_Witness ==
    /\ args.remove_container
    /\ Len(runs) = 2
    /\ Len(runs[1].cmd) = Len(FixedHead) + 5
    /\ runs[1].cmd[Len(FixedHead) + 1] = <<"--rm">>
    /\ runs[1].cmd[Len(FixedHead) + 2] = <<IRODS_BUILD_IMAGE>>
    /\ runs[2].cmd[Len(FixedHead) + 2] = <<DEFAULT_BUILD_IMAGE>>

(***************************************************************************)
(* C16, amended: every assembled script is, in this order, the export of   *)
(* CONDA_BLD_PATH as the artefacts mount, the disabling of auto-update and *)
(* one statement per channel, each of these ending in " ; ", and then, as  *)
(* the last statement, unterminated and exactly once, the cd to the        *)
(* recipes mount and conda build of the record's recipe path.              *)
(***************************************************************************)
BuildFragment == "\" && conda build "

ScriptShape(s, path) ==
    LET n == Len(args.build_channel)
        b == 4 + 3 * n
    IN  /\ Len(s) = b + 3 + Len(path)
        /\ s[1] = "export CONDA_BLD_PATH=\""
        /\ s[2] = args.artefacts_mount[1]
        /\ s[3] = "\" ; "
        /\ s[4] = "conda config --set auto_update_conda False ; "
        /\ \A c \in 1..n :
              /\ s[4 + 3 * (c - 1) + 1] = AddChannel
              /\ s[4 + 3 * (c - 1) + 2] = args.build_channel[c][1]
              /\ s[4 + 3 * (c - 1) + 3] = " ; "
        /\ s[b + 1] = "cd \""
        /\ s[b + 2] = args.recipes_mount[1]
        /\ s[b + 3] = BuildFragment
        /\ SubSeq(s, b + 4, Len(s)) = path
        /\ Cardinality({ k \in 1..Len(s) : s[k] = BuildFragment }) = 1

C16_ScriptOrder ==
    \A k \in 1..Len(Attempts) :
        ScriptShape(ScriptOf(Attempts[k].cmd), split(lines[Attempts[k].idx])[3])

C16_Witness ==
    /\ Len(runs) = 1
    /\ Len(args.build_channel) = 2
    /\ ScriptOf(runs[1].cmd) =
          << "export CONDA_BLD_PATH=\"", "/opt/conda/conda-bld", "\" ; ",
             "conda config --set auto_update_conda False ; ",
             "conda config --add channels ", "c1", " ; ",
             "conda config --add channels ", "c2", " ; ",
             "cd \"", "/home/conda/recipes", "\" && conda build ", "r", "/", "b" >>

(***************************************************************************)
(* C16, as claimed: the same order, with every step, the last one          *)
(* included, appending a ;-terminated statement.  The code violates it:    *)
(* the build statement is appended without a terminator.                   *)
(***************************************************************************)
Terminators == { "\" ; ", " ; ", "conda config --set auto_update_conda False ; " }

C16_EveryStepTerminated ==
    \A k \in 1..Len(Attempts) :
        LET s == ScriptOf(Attempts[k].cmd) IN
        /\ s[1] = "export CONDA_BLD_PATH=\""
        /\ s[4] = "conda config --set auto_update_conda False ; "
        /\ Cardinality({ f \in 1..Len(s) : s[f] = BuildFragment }) = 1
        /\ s[Len(s)] \in Terminators

(***************************************************************************)
(* C17, as claimed: for a well-formed input, when every external process   *)
(* eventually exits, the run eventually reaches Done (the end of the loop) *)
(* after the last record.  The code violates it: a pull that exits         *)
(* non-zero, or a build whose output cannot be decoded, ends the run       *)
(* before Done.                                                            *)
(***************************************************************************)
C17_ReachesDone == AllWellFormed => <>(pc = "done")

(***************************************************************************)
(* C17, amended: when every external process eventually exits the run      *)
(* eventually ends; for a well-formed input it ends in Done after the last *)
(* record unless a pull failed or a build's output could not be decoded.   *)
(* While a build process is in flight the only step the script takes is    *)
(* that process' exit: if it never exits, nothing else ever happens.       *)
(***************************************************************************)
AllDecodable == \A k \in 1..Len(results) : Decodable(results[k].out)

EndsInDone ==
    (Terminated /\ AllWellFormed /\ AllPullsOK /\ AllDecodable) =>
        (pc = "done" /\ i = Len(lines) + 1)

C17_Termination ==
    /\ <>Terminated
    /\ []EndsInDone
    /\ [][pc = "run" => Len(results') = Len(results) + 1]_vars

C17_Witness ==
    /\ pc = "done"
    /\ Len(lines) = 3
    /\ Len(results) = 3
    /\ FailedBuilds = {}

(***************************************************************************)
(* C18: --dry-run does not skip the pulls: the default image is pulled     *)
(* first, and the irods image once for every matching record the loop has  *)
(* got to, so a dry run that ended by a failed pull has a non-zero status  *)
(* though no build was run.                                                *)
(***************************************************************************)
\* The lines the loop has taken past the image selection.
Selected ==
    { k \in 1..Len(lines) : k < i \/ (k = i /\ pc \in {"pull_irods", "plan", "aborted"}
                                             /\ error # "ValueError") }

IrodsPulls == { k \in 1..Len(pulls) : pulls[k].image = args.irods_build_image }

C18_DryRunStillPulls ==
    args.dry_run =>
        /\ pc # "pull_default" => (Len(pulls) >= 1 /\ pulls[1].image = args.conda_build_image)
        /\ Cardinality(IrodsPulls) =
              Cardinality({ k \in Selected : NeedsIrodsImage(lines[k]) })
              - (IF pc = "pull_irods" THEN 1 ELSE 0)
        /\ ~AllPullsOK => (pc = "aborted" /\ exit_status = <<1>> /\ runs = <<>>)

C18_Witness ==
    /\ args.dry_run
    /\ Len(lines) = 3
    /\ i = 3
    /\ Len(pulls) = 3
    /\ ~pulls[3].ok
    /\ pc = "aborted"
    /\ exit_status = <<1>>
    /\ runs = <<>>

(***************************************************************************)
(* C19: the command assembled for a record is a function of the record's   *)
(* line and of the configuration alone: it is what PlanOf gives for them,  *)
(* whatever came before it and whatever the failure flag is; in            *)
(* particular equal lines of one run get equal commands.                   *)
(***************************************************************************)
PlanOf(a, line) ==
    Cmd(a,
        IF NeedsIrodsImage(line) THEN a.irods_build_image ELSE a.conda_build_image,
        split(line)[3])

C19_PlanDependsOnRecordOnly ==
    /\ \A k \in 1..Len(Attempts) :
          Attempts[k].cmd = PlanOf(args, lines[Attempts[k].idx])
    /\ \A j, k \in 1..Len(Attempts) :
          lines[Attempts[j].idx] = lines[Attempts[k].idx] =>
              Attempts[j].cmd = Attempts[k].cmd

C19_Witness ==
    /\ Len(runs) = 2
    /\ Len(results) = 1
    /\ results[1].rc # 0
    /\ fail
    /\ lines[1] = lines[2]
    /\ NeedsIrodsImage(lines[1])
    /\ runs[1].cmd = runs[2].cmd

(***************************************************************************)
(* C20: a line without any field (empty, or whitespace only) is not        *)
(* skipped: the loop never gets past it, nothing is attempted at or after  *)
(* it, and the run that reaches it aborts there with a non-zero status     *)
(* while the attempts for the lines before it stay made.                   *)
(***************************************************************************)
IsBlank(line) == \A k \in 1..Len(line) : line[k] \in {" ", "\t", "\n"}

BlankLines == { k \in 1..Len(lines) : IsBlank(lines[k]) }

C20_BlankLineIsFatal ==
    \A b \in BlankLines :
        /\ i <= b
        /\ \A k \in 1..Len(Attempts) : Attempts[k].idx < b
        /\ \A e \in 1..Len(log) : log[e].idx < b
        /\ i = b =>
              /\ pc \in {"loop", "aborted"}
              /\ pc = "aborted" =>
                    /\ error = "ValueError"
                    /\ exit_status = <<1>>
                    /\ Len(Attempts) = b - 1
                    /\ ~args.dry_run => Len(results) = b - 1

C20_Witness ==
    /\ Len(lines) = 3
    /\ BlankLines = {2}
    /\ i = 2
    /\ pc = "aborted"
    /\ error = "ValueError"
    /\ Len(runs) = 1
    /\ Len(results) = 1
    /\ exit_status = <<1>>

====
